---- MODULE Spec2Model ----
(***************************************************************************)
(* A model of the finsmes crawler (scraping/scrap.py) and of the field     *)
(* extractor (scraping/excraction_features.py).                            *)
(*                                                                         *)
(* Strings are sequences of tokens: a token is a chunk of characters that  *)
(* the code never splits (a host, a path segment, ".pdf", "#", one letter  *)
(* of a title).  Prefix tests, substring tests, concatenation, stripping   *)
(* and truncation are the sequence operations on these tokens.  A long     *)
(* text (an article body) is a run [n |-> length, c |-> character]: the    *)
(* character c repeated n times.                                           *)
(***************************************************************************)
EXTENDS Integers, Sequences, FiniteSets, TLC

\* ------------------------------------------------------------------ bounds
MaxRetriesArg == 4      \* greatest max_retries passed to fetch_html alone
MaxNodes == 3           \* greatest number of nodes of a listing page
MaxBlocks == 3          \* greatest number of blocks of an article page
MaxLinks == 2           \* greatest number of links of a crawled listing
MaxCalls == 3           \* greatest number of save_article_to_txt calls
MaxFiles == 2           \* greatest number of files of the source directory
NumWriters == 2         \* number of concurrent callers of save_article_to_txt

\* --------------------------------------------------------------- constants
MAX_RETRIES == 3
RETRY_BACKOFF == 2
DELAY_BETWEEN_REQUESTS == 2
INITIAL_BACKOFF == 1
SAFE_MAX_LEN == 120
TITLE_CUT == 60
MIN_CONTAINER_TEXT == 50
MIN_FALLBACK_TEXT == 100
ARTICLE_LIMIT == <<>>   \* None

\* Optional[T]: None, or a value
None == <<>>
Some(x) == <<x>>

\* ------------------------------------------------------------------ strings
StartsWith(s, p) == Len(p) <= Len(s) /\ SubSeq(s, 1, Len(p)) = p

Take(s, n) == SubSeq(s, 1, IF Len(s) < n THEN Len(s) ELSE n)

IsSpace(ch) == ch = " "

RECURSIVE LStrip(_)
LStrip(s) == IF s # <<>> /\ IsSpace(Head(s)) THEN LStrip(Tail(s)) ELSE s

RECURSIVE RStrip(_)
RStrip(s) ==
  IF s # <<>> /\ IsSpace(s[Len(s)]) THEN RStrip(SubSeq(s, 1, Len(s) - 1)) ELSE s

Strip(s) == RStrip(LStrip(s))

Lower(tok) == IF tok = ".PDF" THEN ".pdf" ELSE tok

\* x in full.lower(), x one of the tokens the code looks for
ContainsLower(s, x) == \E i \in 1..Len(s) : Lower(s[i]) = x

Digit(d) ==
  CASE d = 0 -> "0" [] d = 1 -> "1" [] d = 2 -> "2" [] d = 3 -> "3" [] d = 4 -> "4"
    [] d = 5 -> "5" [] d = 6 -> "6" [] d = 7 -> "7" [] d = 8 -> "8" [] d = 9 -> "9"

\* str(count)
RECURSIVE Decimal(_)
Decimal(k) == IF k < 10 THEN <<Digit(k)>> ELSE Decimal(k \div 10) \o <<Digit(k % 10)>>

\* --------------------------------------------------------------------- URLs
HOST == "https://www.finsmes.com"
BASE_URL == <<HOST, "/">>

SchemeHosts == {HOST, "https://other.test"}
Delims == {"/", "?replytocom", "#"}

IsAbsolute(u) == u # <<>> /\ u[1] \in SchemeHosts

\* number of leading tokens of u that are not a path, query or fragment delimiter
RECURSIVE AuthorityLen(_)
AuthorityLen(u) ==
  IF u = <<>> \/ Head(u) \in Delims THEN 0 ELSE 1 + AuthorityLen(Tail(u))

\* scheme and authority of an absolute URL: urlparse(u)[:2]
Origin(u) == SubSeq(u, 1, AuthorityLen(u))

\* urlparse(u).path
RECURSIVE PathUpTo(_)
PathUpTo(s) ==
  IF s = <<>> \/ Head(s) \in {"?replytocom", "#"} THEN <<>>
  ELSE <<Head(s)>> \o PathUpTo(Tail(s))

UrlPath(u) == PathUpTo(SubSeq(u, AuthorityLen(u) + 1, Len(u)))

\* the path of base up to and with its last "/" ("/" when base has no path)
RECURSIVE DirOf(_)
DirOf(p) ==
  IF p = <<>> THEN <<"/">>
  ELSE IF p[Len(p)] = "/" THEN p
  ELSE DirOf(SubSeq(p, 1, Len(p) - 1))

urljoin(base, href) ==
  IF href = <<>> THEN base
  ELSE IF IsAbsolute(href) THEN href
  ELSE IF Head(href) = "/" THEN Origin(base) \o href
  ELSE IF Head(href) \in {"#", "?replytocom"} THEN base \o href
  ELSE Origin(base) \o DirOf(UrlPath(base)) \o href

\* ------------------------------------------------------------ safe_filename
WhiteSpace == {" "}
SafeTokens == {"a", "b", "T", "U", "_", "-", ".", ".pdf", ".PDF", ".jpg", ".png",
               "article", "untitled", "0", "1", "2", "3", "4", "5", "6", "7", "8", "9"}

\* re.sub(r"\s+", "_", s)
RECURSIVE CollapseSpaces(_)
CollapseSpaces(s) ==
  IF s = <<>> THEN <<>>
  ELSE IF Head(s) \in WhiteSpace THEN <<"_">> \o CollapseSpaces(LStrip(s))
  ELSE <<Head(s)>> \o CollapseSpaces(Tail(s))

\* re.sub(r"[^A-Za-z0-9_\-\.]", "", s)
KeepSafe(s) == SelectSeq(s, LAMBDA ch : ch \in SafeTokens)

safe_filename(s, max_len) ==
  LET t == Take(KeepSafe(CollapseSpaces(Strip(s))), max_len)
  IN  IF t = <<>> THEN <<"article">> ELSE t

\* ------------------------------------------------------ save_article_to_txt
RECURSIVE RStripSlash(_)
RStripSlash(p) ==
  IF p # <<>> /\ p[Len(p)] = "/" THEN RStripSlash(SubSeq(p, 1, Len(p) - 1)) ELSE p

\* p.split("/")[-1]
RECURSIVE LastSegment(_)
LastSegment(p) ==
  IF p = <<>> THEN <<>>
  ELSE IF p[Len(p)] = "/" THEN <<>>
  ELSE LastSegment(SubSeq(p, 1, Len(p) - 1)) \o <<p[Len(p)]>>

Slug(u) ==
  LET seg == LastSegment(RStripSlash(UrlPath(u)))
  IN  IF seg = <<>> THEN <<"article">> ELSE seg

\* f"{slug}_{title[:60]}".strip()
BaseName(title, u) == Strip(Slug(u) \o <<"_">> \o Take(title, TITLE_CUT))

FilePathCountAhead(base, count) ==
  IF count = 0 THEN safe_filename(base, SAFE_MAX_LEN) \o <<".txt">>
  ELSE safe_filename(base, SAFE_MAX_LEN) \o <<"_">> \o Decimal(count + 1) \o <<".txt">>

\* the path tried first (count 0) and the path f"{safe_filename(base)}_{count}.txt"
FilePath(base, count) ==
  IF count = 0 THEN safe_filename(base, SAFE_MAX_LEN) \o <<".txt">>
  ELSE safe_filename(base, SAFE_MAX_LEN) \o <<"_">> \o Decimal(count) \o <<".txt">>

PathTakenFirstOnly(d, filepath, count) == filepath \in d /\ count = 1

\* os.path.exists(filepath), the condition of the while loop
PathTaken(d, filepath, count) == filepath \in d

\* while os.path.exists(filepath): filepath = ..._{count}.txt; count += 1
RECURSIVE FreePath(_, _, _, _)
FreePath(dir, base, filepath, count) ==
  IF PathTaken(dir, filepath, count) THEN FreePath(dir, base, FilePath(base, count), count + 1)
  ELSE filepath

\* the path save_article_to_txt opens for writing when no other writer runs
SavePath(dir, title, u) ==
  FreePath(dir, BaseName(title, u), FilePath(BaseName(title, u), 0), 1)

\* ---------------------------------------------------- extract_article_links
\* A listing page is the sequence of its nodes in document order, each
\* [tag, cls, hrefs]: hrefs are the href values of the anchors the node holds
\* (for an "a" node, its own).  The empty page is the empty string.
TITLE_CLASS == "entry-title td-module-title"
NonArticleMarks == {".pdf", ".jpg", ".png", "#", "?replytocom"}

\* for h3 in soup.find_all("h3", class_=...): a = h3.find("a", href=True)
RECURSIVE PrimaryLinks(_, _)
PrimaryLinks(doc, base_url) ==
  IF doc = <<>> THEN <<>>
  ELSE LET h3 == Head(doc)
       IN  (IF h3.tag = "h3" /\ h3.cls = TITLE_CLASS /\ h3.hrefs # <<>>
            THEN <<urljoin(base_url, h3.hrefs[1])>> ELSE <<>>)
           \o PrimaryLinks(Tail(doc), base_url)

\* soup.find_all("a", href=True)
RECURSIVE AllAnchors(_)
AllAnchors(doc) ==
  IF doc = <<>> THEN <<>> ELSE Head(doc).hrefs \o AllAnchors(Tail(doc))

\* href.startswith(base_url) or urljoin(base_url, href).startswith(base_url)
UnderBase(href, base_url) ==
  StartsWith(href, base_url) \/ StartsWith(urljoin(base_url, href), base_url)

\* any(x in full.lower() for x in (".pdf", ".jpg", ".png", "#", "?replytocom"))
LooksNonArticle(full) == \E x \in NonArticleMarks : ContainsLower(full, x)

RECURSIVE FallbackLinks(_, _)
FallbackLinks(anchors, base_url) ==
  IF anchors = <<>> THEN <<>>
  ELSE LET href == Head(anchors)
           full == urljoin(base_url, href)
       IN  (IF UnderBase(href, base_url) /\ ~LooksNonArticle(full)
            THEN <<full>> ELSE <<>>)
           \o FallbackLinks(Tail(anchors), base_url)

\* the links collected before deduplication
CollectLinks(doc, base_url) ==
  IF PrimaryLinks(doc, base_url) # <<>> THEN PrimaryLinks(doc, base_url)
  ELSE FallbackLinks(AllAnchors(doc), base_url)

RECURSIVE DedupKeepLast(_, _)
DedupKeepLast(links, seen) ==
  IF links = <<>> THEN <<>>
  ELSE IF \E p \in 2..Len(links) : links[p] = Head(links)
       THEN DedupKeepLast(Tail(links), seen)
  ELSE <<Head(links)>> \o DedupKeepLast(Tail(links), seen)

\* for l in links: if l not in seen: seen.add(l); uniq_links.append(l)
RECURSIVE Dedup(_, _)
Dedup(links, seen) ==
  IF links = <<>> THEN <<>>
  ELSE IF Head(links) \in seen THEN Dedup(Tail(links), seen)
  ELSE <<Head(links)>> \o Dedup(Tail(links), seen \cup {Head(links)})

extract_article_links(listing_html, base_url) ==
  Dedup(CollectLinks(listing_html, base_url), {})

\* -------------------------------------------------- extract_article_content
\* An article page is the sequence of its nodes in document order, each
\* [tag, cls, text, str]: text is the run of characters of a block, str the
\* characters of a title or heading.  The blocks of a page stand side by side:
\* none holds another, and none holds a script, style, noscript or iframe.
EmptyText == [n |-> 0, c |-> ""]
Ord(ch) == CASE ch = "" -> 0 [] ch = " " -> 32 [] ch = "a" -> 97 [] ch = "b" -> 98

\* node.get_text(separator="\n", strip=True) of a block
GetText(node) == IF node.text.n = 0 \/ IsSpace(node.text.c) THEN EmptyText ELSE node.text

\* s < t for two runs, as Python compares str
StrLess(s, t) ==
  IF s.n = 0 \/ t.n = 0 THEN s.n = 0 /\ t.n > 0
  ELSE IF s.c = t.c THEN s.n < t.n
  ELSE Ord(s.c) < Ord(t.c)

TupleLessByLen(x, y) == x[1] < y[1]

\* (len, txt) < (len, txt), as Python compares tuples
TupleLess(x, y) == x[1] < y[1] \/ (x[1] = y[1] /\ StrLess(x[2], y[2]))

\* candidates.sort(reverse=True): insertion into descending order
RECURSIVE InsertDesc(_, _)
InsertDesc(x, sorted) ==
  IF sorted = <<>> THEN <<x>>
  ELSE IF TupleLess(Head(sorted), x) THEN <<x>> \o sorted
  ELSE <<Head(sorted)>> \o InsertDesc(x, Tail(sorted))

RECURSIVE SortReverse(_)
SortReverse(candidates) ==
  IF candidates = <<>> THEN <<>>
  ELSE InsertDesc(candidates[Len(candidates)],
                  SortReverse(SubSeq(candidates, 1, Len(candidates) - 1)))

\* the least of a set of places, or 0: the first match of a search
Least(I) == IF I = {} THEN 0 ELSE CHOOSE i \in I : \A j \in I : i <= j

\* soup.find(name, attrs): the first of the matching nodes, or None
FindFirst(doc, I) == IF I = {} THEN None ELSE Some(doc[Least(I)])

ContentSelectors ==
  << [name |-> "div", cls |-> "tdb-block-inner td-fix-index"],
     [name |-> "div", cls |-> "td-post-content"],
     [name |-> "div", cls |-> "entry-content"],
     [name |-> "div", cls |-> "post-content"],
     [name |-> "article", cls |-> ""] >>

SelectorMatches(sel, node) ==
  node.tag = sel.name /\ (sel.cls = "" \/ node.cls = sel.cls)

\* for name, attrs in content_selectors: ... if text and len(text) > 50: break
RECURSIVE ContainerText(_, _)
ContainerText(doc, k) ==
  IF k > Len(ContentSelectors) THEN EmptyText
  ELSE LET node == FindFirst(doc, {p \in 1..Len(doc) :
                                  SelectorMatches(ContentSelectors[k], doc[p])})
       IN  IF node # None /\ GetText(node[1]).n > MIN_CONTAINER_TEXT
           THEN GetText(node[1])
           ELSE ContainerText(doc, k + 1)

\* body.find_all(["div", "section", "article"]) as (len(txt), txt) pairs
RECURSIVE Candidates(_)
Candidates(doc) ==
  IF doc = <<>> THEN <<>>
  ELSE (IF Head(doc).tag \in {"div", "section", "article"}
        THEN << <<GetText(Head(doc)).n, GetText(Head(doc))>> >> ELSE <<>>)
       \o Candidates(Tail(doc))

\* the text of candidates[0] after the sort
Largest(candidates) == SortReverse(candidates)[1][2]

FallbackText(doc) ==
  IF Candidates(doc) # <<>> /\ Largest(Candidates(doc)).n > MIN_FALLBACK_TEXT
  THEN Largest(Candidates(doc)) ELSE EmptyText

ContentText(doc) ==
  IF ContainerText(doc, 1) # EmptyText THEN ContainerText(doc, 1) ELSE FallbackText(doc)

TitleSelectors == <<"", "entry-title", "td-page-title", "post-title">>

RECURSIVE HeadingTitle(_, _)
HeadingTitle(doc, k) ==
  IF k > Len(TitleSelectors) THEN <<>>
  ELSE LET tag == FindFirst(doc, {p \in 1..Len(doc) :
                    /\ doc[p].tag = "h1"
                    /\ (TitleSelectors[k] = "" \/ doc[p].cls = TitleSelectors[k])})
       IN  IF tag # None /\ Strip(tag[1].str) # <<>> THEN Strip(tag[1].str)
           ELSE HeadingTitle(doc, k + 1)

TitleText(doc) ==
  LET t == FindFirst(doc, {p \in 1..Len(doc) : doc[p].tag = "title"})
      fromTitle == IF t # None /\ t[1].str # <<>> THEN Strip(t[1].str) ELSE <<>>
      title == IF HeadingTitle(doc, 1) # <<>> THEN HeadingTitle(doc, 1) ELSE fromTitle
  IN  IF title = <<>> THEN <<"untitled">> ELSE title

\* (title, content_text)
extract_article_content(html) == <<TitleText(html), ContentText(html)>>

\* ---------------------------------------------------------------- the state
VARIABLES
  \* fetch_html
  url, max_retries, attempt, backoff, fpc, fresult, err,
  \* scrape_articles
  cpc, base_url, listing_html, links, idx, article_html, title, content,
  \* the save directory, what happened, in order, and the files opened for writing
  dir, log, saved,
  \* concurrent callers of save_article_to_txt
  writers, serial, calls, dir0,
  \* extract_all_articles
  source_dir, todo, data

fetchVars == <<url, max_retries, attempt, backoff, fpc, fresult, err>>
otherVars == <<writers, serial, calls, dir0, source_dir, todo, data>>
crawlVars == <<cpc, base_url, listing_html, links, idx, article_html, title, content>>

\* one entry of the log: what was done, for which link (0: the listing), how it
\* ended and how long it slept
Event(e, i, ok, t) == [e |-> e, i |-> i, ok |-> ok, t |-> t]

\* ------------------------------------------------------------------- pages
Node(tag, cls, text, str) == [tag |-> tag, cls |-> cls, text |-> text, str |-> str]
Run(n, c) == [n |-> n, c |-> c]
Heading(cls, hrefs) == [tag |-> "h3", cls |-> cls, hrefs |-> hrefs]
Anchor(href) == [tag |-> "a", cls |-> "", hrefs |-> <<href>>]
Para == [tag |-> "p", cls |-> "", hrefs |-> <<>>]

\* the hrefs of the listings the crawl meets: the first is repeated, the third
\* shares its slug with it
CrawlHrefs ==
  << <<"/", "a">>, <<"/", "a">>, <<"/", "b", "/", "a">>, <<"/", "b">>, <<"/", "c">> >>

RECURSIVE HeadingsOf(_)
HeadingsOf(hrefs) ==
  IF hrefs = <<>> THEN <<>>
  ELSE <<Heading(TITLE_CLASS, <<Head(hrefs)>>)>> \o HeadingsOf(Tail(hrefs))

\* what the server may answer for the listing: the empty string, a page with
\* no link, pages with up to MaxLinks different links
CrawlListings ==
  {<<>>, <<Para>>} \cup
  {HeadingsOf(Take(CrawlHrefs, k)) : k \in 1..(MaxLinks + 1)}

\* what the server may answer for an article: the empty string, a page with
\* no usable text, two pages with a body
CrawlArticles ==
  { <<>>,
    <<Node("title", "", EmptyText, <<"T">>), Node("div", "", Run(100, "a"), <<>>)>>,
    <<Node("title", "", EmptyText, <<"T">>), Node("div", "td-post-content", Run(51, "a"), <<>>)>>,
    <<Node("h1", "", EmptyText, <<"T", " ", "U">>), Node("section", "", Run(101, "b"), <<>>)>> }

Responses(u) == IF u = BASE_URL THEN CrawlListings ELSE CrawlArticles

\* ---------------------------------------------------------------- fetch_html
FetchErrors == {"ConnectionError", "HTTPError", "Timeout"}

\* except Exception as e
Caught(e) == e \in {"ConnectionError", "HTTPError", "Timeout"}

\* not html, for html: Optional[str]
Falsy(html) == html = None \/ html[1] = <<>>

\* fetch_html(u), max_retries defaulted: attempt = 0, backoff = 1.0
CallFetch(u) ==
  /\ url' = u
  /\ max_retries' = MAX_RETRIES
  /\ attempt' = 0
  /\ backoff' = INITIAL_BACKOFF
  /\ fpc' = "loop"
  /\ fresult' = None
  /\ err' = None

\* one pass of the while loop that ends in return resp.text
AttemptOk ==
  /\ fpc = "loop"
  /\ attempt < max_retries
  /\ \E body \in Responses(url) :
       /\ fresult' = Some(body)
       /\ fpc' = "returned"
       /\ log' = Append(log, Event("get", idx, TRUE, 0))
  /\ UNCHANGED <<otherVars, saved, url, max_retries, attempt, backoff, err, crawlVars, dir>>

SleepTimeBeforeScaling(b) == b

\* sleep_time = backoff * RETRY_BACKOFF
SleepTime(b) == b * RETRY_BACKOFF

\* one pass of the while loop in which scraper.get or raise_for_status raises
AttemptFail ==
  /\ fpc = "loop"
  /\ attempt < max_retries
  /\ \E e \in FetchErrors :
       /\ err' = Some(e)
       /\ IF Caught(e)
          THEN /\ attempt' = attempt + 1
               /\ IF attempt + 1 < max_retries
                  THEN /\ log' = log \o <<Event("get", idx, FALSE, 0),
                                          Event("sleep", idx, FALSE, SleepTime(backoff))>>
                       /\ backoff' = backoff * RETRY_BACKOFF
                  ELSE /\ log' = Append(log, Event("get", idx, FALSE, 0))
                       /\ backoff' = backoff
               /\ fpc' = "loop"
          ELSE /\ fpc' = "raised"
               /\ log' = Append(log, Event("get", idx, FALSE, 0))
               /\ UNCHANGED <<otherVars, saved, attempt, backoff>>
  /\ UNCHANGED <<otherVars, saved, url, max_retries, fresult, crawlVars, dir>>

\* the loop ends: return None
FetchGiveUp ==
  /\ fpc = "loop"
  /\ attempt >= max_retries
  /\ fresult' = None
  /\ fpc' = "returned"
  /\ UNCHANGED <<otherVars, saved, url, max_retries, attempt, backoff, err, crawlVars, dir, log>>

\* ----------------------------------------------------------- scrape_articles
\* if ARTICLE_LIMIT: links = links[:ARTICLE_LIMIT]
Limit(ls) == IF ARTICLE_LIMIT = None THEN ls ELSE Take(ls, ARTICLE_LIMIT[1])

BlankNever(text) == FALSE

\* not content.strip()
Blank(text) == text.n = 0 \/ IsSpace(text.c)

\* listing_html = fetch_html(base_url)
StartCrawl ==
  /\ cpc = "Idle"
  /\ cpc' = "FetchingListing"
  /\ CallFetch(base_url)
  /\ UNCHANGED <<otherVars, saved, base_url, listing_html, links, idx, article_html, title, content, dir, log>>

\* if not listing_html: return
ListingReturned ==
  /\ cpc = "FetchingListing"
  /\ fpc = "returned"
  /\ listing_html' = fresult
  /\ fpc' = "idle"
  /\ IF Falsy(fresult)
     THEN cpc' = "Aborted" /\ log' = Append(log, Event("abort", 0, FALSE, 0))
     ELSE cpc' = "ExtractingLinks" /\ log' = log
  /\ UNCHANGED <<otherVars, saved, url, max_retries, attempt, backoff, fresult, err,
                 base_url, links, idx, article_html, title, content, dir>>

\* links = extract_article_links(listing_html, base_url), limited
ExtractLinks ==
  /\ cpc = "ExtractingLinks"
  /\ links' = Limit(extract_article_links(listing_html[1], base_url))
  /\ idx' = 0
  /\ cpc' = "ProcessingLinks"
  /\ log' = Append(log, Event("links", 0, TRUE, 0))
  /\ UNCHANGED <<otherVars, saved, fetchVars, base_url, listing_html, article_html, title,
                 content, dir>>

\* for idx, link in enumerate(links, start=1): time.sleep(DELAY_BETWEEN_REQUESTS)
NextLink ==
  /\ cpc \in {"ProcessingLinks", "Skipped"}
  /\ idx < Len(links)
  /\ idx' = idx + 1
  /\ cpc' = "Delaying"
  /\ UNCHANGED <<otherVars, saved, fetchVars, base_url, listing_html, links, article_html, title, content,
                 dir, log>>

\* the sleep ends: article_html = fetch_html(link)
Delay ==
  /\ cpc = "Delaying"
  /\ log' = Append(log, Event("delay", idx, TRUE, DELAY_BETWEEN_REQUESTS))
  /\ CallFetch(links[idx])
  /\ cpc' = "Fetching"
  /\ UNCHANGED <<otherVars, saved, base_url, listing_html, links, idx, article_html, title, content, dir>>

\* if not article_html: continue
ArticleReturned ==
  /\ cpc = "Fetching"
  /\ fpc = "returned"
  /\ article_html' = fresult
  /\ fpc' = "idle"
  /\ IF Falsy(fresult)
     THEN cpc' = "Skipped" /\ log' = Append(log, Event("skip", idx, FALSE, 0))
     ELSE cpc' = "ExtractingContent" /\ log' = log
  /\ UNCHANGED <<otherVars, saved, url, max_retries, attempt, backoff, fresult, err,
                 base_url, listing_html, links, idx, title, content, dir>>

\* title, content = extract_article_content(article_html);
\* if not content.strip(): continue
ExtractContent ==
  /\ cpc = "ExtractingContent"
  /\ title' = extract_article_content(article_html[1])[1]
  /\ content' = extract_article_content(article_html[1])[2]
  /\ IF Blank(content')
     THEN /\ cpc' = "Skipped"
          /\ log' = log \o <<Event("extract", idx, FALSE, 0), Event("skip", idx, TRUE, 0)>>
     ELSE /\ cpc' = "Writing"
          /\ log' = Append(log, Event("extract", idx, TRUE, 0))
  /\ UNCHANGED <<otherVars, saved, fetchVars, base_url, listing_html, links, idx, article_html, dir>>

\* save_article_to_txt(title=title, url=link, content=content)
WriteArticle ==
  /\ cpc = "Writing"
  /\ dir' = dir \cup {SavePath(dir, title, links[idx])}
  /\ log' = Append(log, Event("write", idx, SavePath(dir, title, links[idx]) \notin dir, 0))
  /\ saved' = Append(saved, [base |-> safe_filename(BaseName(title, links[idx]), SAFE_MAX_LEN),
                              path |-> SavePath(dir, title, links[idx]),
                              existed |-> SavePath(dir, title, links[idx]) \in dir])
  /\ cpc' = "ProcessingLinks"
  /\ UNCHANGED <<otherVars, fetchVars, base_url, listing_html, links, idx, article_html, title,
                 content>>

\* print("[DONE] Scraping finished.")
Finish ==
  /\ cpc \in {"ProcessingLinks", "Skipped"}
  /\ idx >= Len(links)
  /\ cpc' = "Done"
  /\ log' = Append(log, Event("done", idx, TRUE, 0))
  /\ UNCHANGED <<otherVars, saved, fetchVars, base_url, listing_html, links, idx, article_html, title, content,
                 dir>>

\* ------------------------------------- save_article_to_txt, several callers
Writers == 1..NumWriters

IdleWriter ==
  [pc |-> "idle", base |-> <<>>, filepath |-> <<>>, count |-> 0]

\* the (title, url) pairs saved: the first three derive the sanitized base
\* name a_T, the fourth a_T_1, the fifth b_U
SaveArgs ==
  { [title |-> <<"T">>, url |-> <<HOST, "/", "a">>],
    [title |-> <<"T">>, url |-> <<HOST, "/", "b", "/", "a", "/">>],
    [title |-> <<"T", "!">>, url |-> <<HOST, "/", "a">>],
    [title |-> <<"T", " ", "1">>, url |-> <<HOST, "/", "a">>],
    [title |-> <<"U">>, url |-> <<HOST, "/", "b">>] }

\* a caller may start: always when callers are not serialized, and else only
\* when no other caller is between its existence check and its write
MayEnter(w) == serial => \A v \in Writers \ {w} : writers[v].pc = "idle"

\* lines 59-66: base, filename, filepath, count = 1
SaveCall(w) ==
  /\ writers[w].pc = "idle"
  /\ calls < MaxCalls
  /\ MayEnter(w)
  /\ \E a \in SaveArgs :
       writers' = [writers EXCEPT ![w] =
                     [pc |-> "check", base |-> BaseName(a.title, a.url),
                      filepath |-> FilePath(BaseName(a.title, a.url), 0), count |-> 1]]
  /\ calls' = calls + 1
  /\ UNCHANGED <<fetchVars, crawlVars, dir, log, saved, serial, dir0, source_dir, todo, data>>

\* one evaluation of the while condition, and the loop body when it holds
SaveCheck(w) ==
  /\ writers[w].pc = "check"
  /\ IF PathTaken(dir, writers[w].filepath, writers[w].count)
     THEN writers' = [writers EXCEPT
                        ![w].filepath = FilePath(writers[w].base, writers[w].count),
                        ![w].count = writers[w].count + 1]
     ELSE writers' = [writers EXCEPT ![w].pc = "open"]
  /\ UNCHANGED <<fetchVars, crawlVars, dir, log, saved, serial, calls, dir0, source_dir, todo,
                 data>>

\* with open(filepath, "w") as f: f.write(...)
SaveOpen(w) ==
  /\ writers[w].pc = "open"
  /\ dir' = dir \cup {writers[w].filepath}
  /\ saved' = Append(saved, [base |-> safe_filename(writers[w].base, SAFE_MAX_LEN),
                              path |-> writers[w].filepath,
                              existed |-> writers[w].filepath \in dir])
  /\ writers' = [writers EXCEPT ![w] = IdleWriter]
  /\ UNCHANGED <<fetchVars, crawlVars, log, serial, calls, dir0, source_dir, todo, data>>

\* ------------------------------------------------------------ initial states
FetchIdle ==
  /\ url = <<>>
  /\ max_retries = MAX_RETRIES
  /\ attempt = 0
  /\ backoff = INITIAL_BACKOFF
  /\ fpc = "idle"
  /\ fresult = None
  /\ err = None

CrawlIdle ==
  /\ cpc = "Idle"
  /\ base_url = BASE_URL
  /\ listing_html = None
  /\ links = <<>>
  /\ idx = 0
  /\ article_html = None
  /\ title = <<>>
  /\ content = EmptyText

SaveIdle ==
  /\ writers = [w \in Writers |-> IdleWriter]
  /\ serial = TRUE
  /\ calls = 0

ExtractIdle ==
  /\ source_dir = <<>>
  /\ todo = {}
  /\ data = <<>>

\* os.makedirs(SAVE_DIR, exist_ok=True): the directory may hold earlier files
CrawlDirs == { {}, {<<"a", "_", "T", ".txt">>} }

\* the crawl: scrape_articles(BASE_URL)
Init ==
  /\ FetchIdle /\ CrawlIdle /\ SaveIdle /\ ExtractIdle
  /\ dir \in CrawlDirs
  /\ dir0 = dir
  /\ log = <<>>
  /\ saved = <<>>

Next ==
  \/ StartCrawl
  \/ AttemptOk
  \/ AttemptFail
  \/ FetchGiveUp
  \/ ListingReturned
  \/ ExtractLinks
  \/ NextLink
  \/ Delay
  \/ ArticleReturned
  \/ ExtractContent
  \/ WriteArticle
  \/ Finish

vars == <<fetchVars, crawlVars, dir, log, saved, otherVars>>

Spec == Init /\ [][Next]_vars

\* one call fetch_html(url, timeout, max_retries)
FetchInit ==
  /\ url = BASE_URL
  /\ max_retries \in 0..MaxRetriesArg
  /\ attempt = 0
  /\ backoff = INITIAL_BACKOFF
  /\ fpc = "loop"
  /\ fresult = None
  /\ err = None
  /\ CrawlIdle /\ SaveIdle /\ ExtractIdle
  /\ dir = {}
  /\ dir0 = dir
  /\ log = <<>>
  /\ saved = <<>>

FetchNext == AttemptOk \/ AttemptFail \/ FetchGiveUp

FetchSpec == FetchInit /\ [][FetchNext]_vars

\* one call save_article_to_txt after another, by NumWriters callers
SaveDirs == { {}, {<<"a", "_", "T", "_", "1", ".txt">>}, {<<"b", "_", "U", ".txt">>} }

SaveInit ==
  /\ FetchIdle /\ CrawlIdle /\ ExtractIdle
  /\ writers = [w \in Writers |-> IdleWriter]
  /\ serial \in BOOLEAN
  /\ calls = 0
  /\ dir \in SaveDirs
  /\ dir0 = dir
  /\ log = <<>>
  /\ saved = <<>>

SaveNext == \E w \in Writers : SaveCall(w) \/ SaveCheck(w) \/ SaveOpen(w)

SaveSpec == SaveInit /\ [][SaveNext]_vars

\* one call extract_article_links(listing_html, base_url)
LinkHrefs ==
  { <<"/", "a">>, <<"b">>, <<HOST, "/", "a">>, <<HOST, "/", "b", ".pdf">>,
    <<"/", "c", ".PDF">>, <<HOST, ".evil.com", "/", "a">>, <<"https://other.test", "/", "a">>,
    <<"/", "a", "#">>, <<"/", "b", "?replytocom">>, <<>> }

LinkNodes ==
  {Anchor(h) : h \in LinkHrefs} \cup
  { Heading(TITLE_CLASS, <<>>), Heading(TITLE_CLASS, <<<<"/", "a">>>>),
    Heading(TITLE_CLASS, << <<"/", "b">>, <<"/", "a">> >>),
    Heading("entry-title", <<<<"/", "c">>>>), Para }

SeqsUpTo(S, n) == UNION {[1..k -> S] : k \in 0..n}

BaseUrls == {BASE_URL, <<HOST>>, <<HOST, "/", "news", "/">>}

LinksInit ==
  /\ FetchIdle /\ SaveIdle /\ ExtractIdle
  /\ cpc = "ExtractingLinks"
  /\ base_url \in BaseUrls
  /\ listing_html \in {Some(doc) : doc \in SeqsUpTo(LinkNodes, MaxNodes)}
  /\ links = <<>>
  /\ idx = 0
  /\ article_html = None
  /\ title = <<>>
  /\ content = EmptyText
  /\ dir = {}
  /\ dir0 = dir
  /\ log = <<>>
  /\ saved = <<>>

LinksNext == ExtractLinks

LinksSpec == LinksInit /\ [][LinksNext]_vars

\* one call extract_article_content(html)
BlockNodes ==
  {Node("div", "", t, <<>>) :
     t \in {EmptyText, Run(101, " "), Run(100, "a"), Run(101, "a"), Run(101, "b"),
            Run(120, "a")}} \cup
  {Node("section", "", t, <<>>) : t \in {Run(101, "a"), Run(101, "b")}} \cup
  {Node("article", "", t, <<>>) : t \in {Run(50, "b"), Run(51, "b")}} \cup
  {Node("div", "td-post-content", t, <<>>) : t \in {Run(50, "b"), Run(51, "a")}}

ContentInit ==
  /\ FetchIdle /\ SaveIdle /\ ExtractIdle
  /\ cpc = "ExtractingContent"
  /\ base_url = BASE_URL
  /\ listing_html = None
  /\ links = <<>>
  /\ idx = 0
  /\ article_html \in {Some(doc) : doc \in SeqsUpTo(BlockNodes, MaxBlocks)}
  /\ title = <<>>
  /\ content = EmptyText
  /\ dir = {}
  /\ dir0 = dir
  /\ log = <<>>
  /\ saved = <<>>

ContentNext == ExtractContent

ContentSpec == ContentInit /\ [][ContentNext]_vars

\* ---------------------------------------------------- extract_info_from_text
\* An artifact text is the sequence of its words, "\n" between its lines; a
\* value of a record is the sequence of the words matched.
UNDEFINED == <<"undefined">>
NL == "\n"
UrlWords == {"https://x.test/a", "http://y.test/b"}
PlainWords == {"Acme", "Corp", "T", "in", "founded", "Founded", "2019", "million", "seed",
               "series", "a", "funding", "raises", "has", "Title:", "hello"}
MonthDates == {"March 5, 2024"}
Years == {"2019"}
Amounts == {"$5"}
Scales == {"million", "billion", "m", "k", "bn"}
FundingTypes == << <<"seed">>, <<"pre-seed">>, <<"series", "a">>, <<"series", "b">>,
                   <<"series", "c">>, <<"venture">>, <<"angel">>, <<"growth">>, <<"bridge">> >>
NameDelimiters == {",", "has", "announced", "raises", "raised", "secured"}

LowerWord(w) == IF w = "Founded" THEN "founded" ELSE w

\* str.title() of a word of a funding type
TitleWord(w) ==
  CASE w = "seed" -> "Seed" [] w = "pre-seed" -> "Pre-Seed" [] w = "series" -> "Series"
    [] w = "a" -> "A" [] w = "b" -> "B" [] w = "c" -> "C" [] w = "venture" -> "Venture"
    [] w = "angel" -> "Angel" [] w = "growth" -> "Growth" [] w = "bridge" -> "Bridge"

TitleCase(ws) == [p \in 1..Len(ws) |-> TitleWord(ws[p])]

\* info[key] = value
DictSet(info, key, value) ==
  [x \in (DOMAIN info) \cup {key} |-> IF x = key THEN value ELSE info[x]]

\* the first place at or after p that holds no newline
RECURSIVE SkipNewlines(_, _)
SkipNewlines(text, p) ==
  IF p <= Len(text) /\ text[p] = NL THEN SkipNewlines(text, p + 1) ELSE p

\* re.search(r"^Source:\s*(https?://[^\s]+)", text, re.MULTILINE)
SourceUrl(text) ==
  LET p == Least({q \in 1..Len(text) :
             /\ text[q] = "Source:"
             /\ (q = 1 \/ text[q - 1] = NL)
             /\ SkipNewlines(text, q + 1) <= Len(text)
             /\ text[SkipNewlines(text, q + 1)] \in UrlWords})
  IN  IF p = 0 THEN None ELSE Some(<<text[SkipNewlines(text, p + 1)]>>)

\* re.search(r"Date:\s*([\w\s,]+)", text): the words, commas and newlines that follow
DateLabel(text) ==
  LET p == Least({q \in 1..Len(text) : text[q] = "Date:" /\ q < Len(text)})
  IN  IF p = 0 THEN None
      ELSE LET stop == Least({q \in 1..Len(text) :
                         q > p /\ text[q] \notin PlainWords \cup MonthDates \cup {NL, ","}})
           IN  Some(SubSeq(text, p + 1, IF stop = 0 THEN Len(text) ELSE stop - 1))

\* re.search(r"\b(?:January|...|December)\s+\d{1,2},\s+\d{4}\b", text)
BodyDate(text) ==
  LET p == Least({q \in 1..Len(text) : text[q] \in MonthDates})
  IN  IF p = 0 THEN None ELSE Some(<<text[p]>>)

\* re.search(r"\bfounded in (\d{4})", text, re.IGNORECASE)
FoundedIn(text) ==
  LET p == Least({q \in 1..Len(text) :
             /\ q + 2 <= Len(text)
             /\ LowerWord(text[q]) = "founded" /\ text[q + 1] = "in" /\ text[q + 2] \in Years})
  IN  IF p = 0 THEN None ELSE Some(<<text[p + 2]>>)

\* re.search(r"([€$£]\s?\d+(?:[\.,]?\d+)?(?:\s?(?:million|billion|m|k|bn))?)", ...)
Amount(text) ==
  LET p == Least({q \in 1..Len(text) : text[q] \in Amounts})
  IN  IF p = 0 THEN None
      ELSE IF p < Len(text) /\ text[p + 1] \in Scales THEN Some(<<text[p], text[p + 1]>>)
      ELSE Some(<<text[p]>>)

\* re.search(rf"\b{ftype} funding\b", text, re.IGNORECASE)
HasFundingType(text, ftype) ==
  \E q \in 1..Len(text) :
    /\ q + Len(ftype) <= Len(text)
    /\ SubSeq(text, q, q + Len(ftype) - 1) = ftype
    /\ text[q + Len(ftype)] = "funding"

\* for ftype in funding_types: if re.search(...): ...; break
RECURSIVE FundingType(_, _)
FundingType(text, k) ==
  IF k > Len(FundingTypes) THEN None
  ELSE IF HasFundingType(text, FundingTypes[k]) THEN Some(TitleCase(FundingTypes[k]))
  ELSE FundingType(text, k + 1)

\* text.strip().splitlines()
RECURSIVE StripNewlines(_)
StripNewlines(text) ==
  IF text # <<>> /\ Head(text) = NL THEN StripNewlines(Tail(text))
  ELSE IF text # <<>> /\ text[Len(text)] = NL
       THEN StripNewlines(SubSeq(text, 1, Len(text) - 1))
  ELSE text

RECURSIVE SplitLines(_)
SplitLines(text) ==
  IF text = <<>> THEN <<>>
  ELSE LET p == Least({q \in 1..Len(text) : text[q] = NL})
       IN  IF p = 0 THEN <<text>>
           ELSE <<SubSeq(text, 1, p - 1)>> \o SplitLines(SubSeq(text, p + 1, Len(text)))

\* re.match(r"^(.*?)(?:,| has| announced| raises| raised| secured)", line): group(1)
NameMatch(line) ==
  LET p == Least({q \in 1..Len(line) :
             line[q] = "," \/ (q > 1 /\ LowerWord(line[q]) \in NameDelimiters)})
  IN  IF p = 0 THEN None ELSE Some(SubSeq(line, 1, p - 1))

\* for line in lines[2:6]: ... if m and 2 <= len(m.group(1).split()) <= 5: ...; break
RECURSIVE CompanyName(_, _)
CompanyName(lines, k) ==
  IF k > Len(lines) \/ k > 6 THEN None
  ELSE LET m == NameMatch(lines[k])
       IN  IF m # None /\ 2 <= Len(m[1]) /\ Len(m[1]) <= 5 THEN m
           ELSE CompanyName(lines, k + 1)

SetIfFound(info, key, found) == IF found = None THEN info ELSE DictSet(info, key, found[1])

extract_info_from_text(text) ==
  LET info0 == [key \in {"company_name", "funding_amount", "funding_type", "article_date",
                         "company_since", "article_url"} |-> UNDEFINED]
      info1 == SetIfFound(info0, "article_url", SourceUrl(text))
      info2 == IF DateLabel(text) # None
               THEN DictSet(info1, "article_date", DateLabel(text)[1])
               ELSE SetIfFound(info1, "article_date", BodyDate(text))
      info3 == SetIfFound(info2, "company_since", FoundedIn(text))
      info4 == SetIfFound(info3, "funding_amount", Amount(text))
      info5 == SetIfFound(info4, "funding_type", FundingType(text, 1))
  IN  SetIfFound(info5, "company_name", CompanyName(SplitLines(StripNewlines(text)), 3))

\* ------------------------------------------------------ extract_all_articles
TagUnderFileKey(info, filename) == DictSet(info, "file", filename)

\* info["filename"] = filename
TagFilename(info, filename) == DictSet(info, "filename", filename)

\* filename.endswith(".txt")
IsTxt(filename) == filename # <<>> /\ filename[Len(filename)] = ".txt"

\* one pass of the loop over os.listdir(source_dir), in the order the platform gives
ListNext ==
  /\ \E filename \in todo :
       /\ todo' = todo \ {filename}
       /\ data' = IF IsTxt(filename)
                  THEN Append(data, TagFilename(extract_info_from_text(source_dir[filename]),
                                                filename))
                  ELSE data
  /\ UNCHANGED <<fetchVars, crawlVars, dir, log, saved, writers, serial, calls, dir0,
                 source_dir>>

FileNames == {<<"a", ".txt">>, <<"b", ".txt">>, <<"c", ".txt">>, <<"notes", ".md">>}

ArtifactTexts ==
  { <<>>,
    <<"hello">>,
    <<"Source:", "https://x.test/a", NL, "Title:", "T", NL, "====", NL, NL,
      "Acme", "Corp", "raises", "$5", "million", "in", "series", "a", "funding", ",",
      "founded", "in", "2019", ".">>,
    <<"Source:", NL, "http://y.test/b", NL, "Title:", "T", NL, "====", NL, NL,
      "Date:", "March 5, 2024", NL, "Acme", "has", "$5", "seed", "funding">>,
    <<"Title:", "T", NL, "Founded", "in", "2019", "on", "March 5, 2024", "Date:">> }

ExtractInit ==
  /\ FetchIdle /\ CrawlIdle /\ SaveIdle
  /\ \E names \in SUBSET FileNames :
       /\ Cardinality(names) <= MaxFiles
       /\ source_dir \in [names -> ArtifactTexts]
  /\ todo = DOMAIN source_dir
  /\ data = <<>>
  /\ dir = {}
  /\ dir0 = dir
  /\ log = <<>>
  /\ saved = <<>>

ExtractNext == ListNext

ExtractSpec == ExtractInit /\ [][ExtractNext]_vars

\* ================================================================== claims
RECURSIVE Pow(_, _)
Pow(b, k) == IF k = 0 THEN 1 ELSE b * Pow(b, k - 1)

Gets == SelectSeq(log, LAMBDA ev : ev.e = "get")
LastEvent == log[Len(log)]

\* C1: for max_retries >= 1, fetch_html follows the bounded retry protocol:
\* attempts and delays alternate, an attempt is followed by anything only if it
\* failed, a successful attempt ends the call with its body, the delay before
\* attempt k is INITIAL_BACKOFF * RETRY_BACKOFF^(k-1), and when every attempt
\* fails there are exactly max_retries attempts, no delay after the last, the
\* result None and no exception out of the call.
C1_RetryProtocol ==
  max_retries >= 1 =>
    /\ fpc # "raised"
    /\ \A p \in 1..Len(log) :
         /\ p % 2 = 1 => log[p].e = "get"
         /\ p % 2 = 0 => /\ log[p].e = "sleep"
                         /\ log[p].t = INITIAL_BACKOFF * Pow(RETRY_BACKOFF, p \div 2)
         /\ (log[p].e = "get" /\ p < Len(log)) => ~log[p].ok
         /\ (log[p].e = "get" /\ log[p].ok) =>
              /\ p = Len(log)
              /\ fpc = "returned"
              /\ fresult # None /\ fresult[1] \in Responses(url)
    /\ Len(Gets) <= max_retries
    /\ (fpc = "loop" /\ attempt < max_retries /\ log # <<>>) => LastEvent.e = "sleep"
    /\ (fpc = "returned" /\ fresult = None) =>
         /\ Len(Gets) = max_retries
         /\ \A k \in 1..Len(Gets) : ~Gets[k].ok
         /\ LastEvent.e = "get"
    /\ (fpc = "returned" /\ fresult # None) => LastEvent.e = "get" /\ LastEvent.ok

\* three failed attempts with the delays 2 and 4 between them, then None
C1_Witness ==
  /\ max_retries = 3 /\ fpc = "returned" /\ fresult = None
  /\ Len(log) = 5 /\ log[2].t = 2 * INITIAL_BACKOFF /\ log[4].t = 4 * INITIAL_BACKOFF

RunEnded == cpc \in {"Aborted", "Done"}
ListingFetched == cpc \notin {"Idle", "FetchingListing"}
HasEvent(e, i) == \E p \in 1..Len(log) : log[p].e = e /\ log[p].i = i
Delays == SelectSeq(log, LAMBDA ev : ev.e = "delay")

\* C3: the run is aborted, with no link extraction, no article fetch and no
\* artifact written, exactly when the listing fetch returned the failure
\* result; after a success result, whatever the body, it is not aborted.
C3_AbortIffListingFailed ==
  ListingFetched =>
    /\ cpc = "Aborted" <=> listing_html = None
    /\ cpc = "Aborted" => /\ ~HasEvent("links", 0)
                          /\ Delays = <<>>
                          /\ saved = <<>>

\* C4: once the listing fetch succeeded, a run that ended has reported Done, and
\* it has attempted every link of extract_article_links once, in order.
C4_AllLinksAttemptedThenDone ==
  /\ \A p \in 1..Len(Delays) : Delays[p].i = p
  /\ Len(Delays) <= Len(links)
  /\ (ListingFetched /\ listing_html # None /\ cpc # "ExtractingLinks" /\ cpc # "Aborted")
       => links = extract_article_links(listing_html[1], base_url)
  /\ HasEvent("done", Len(links)) => Len(Delays) = Len(links)
  /\ (RunEnded /\ listing_html # None) =>
       /\ cpc = "Done"
       /\ Len(Delays) = Len(extract_article_links(listing_html[1], base_url))

\* the events of link i, in order
EventsOf(i) == SelectSeq(log, LAMBDA ev : ev.i = i /\ ev.e \notin {"done", "links", "abort"})
LinkFinished(i) == i < idx \/ (i = idx /\ cpc \in {"ProcessingLinks", "Skipped", "Done"})
Writes == SelectSeq(log, LAMBDA ev : ev.e = "write")
HasBody(page) == ContentText(page).n > 0 /\ ContentText(page).c # " "

\* C5: the events of the links do not interleave; no delay precedes the listing
\* fetch; the events of a link are one delay of DELAY_BETWEEN_REQUESTS, then the
\* HTTP attempts, then an extraction only after a successful attempt, then one
\* skip or one write; and a link is written exactly when its fetch succeeded and
\* the body extracted from the fetched page is not blank, and is skipped otherwise.
C5_PerLinkOrder ==
  /\ \A p, q \in 1..Len(log) : p < q => log[p].i <= log[q].i
  /\ ~HasEvent("delay", 0) /\ ~HasEvent("extract", 0) /\ ~HasEvent("write", 0)
  /\ Len(saved) = Len(Writes)
  /\ \A i \in 1..Len(links) :
       LET E == EventsOf(i)
       IN  /\ E # <<>> => E[1] = Event("delay", i, TRUE, DELAY_BETWEEN_REQUESTS)
           /\ \A k \in 2..Len(E) :
                /\ E[k].e # "delay"
                /\ E[k].e \in {"get", "sleep"} => E[k - 1].e \in {"delay", "get", "sleep"}
                /\ E[k].e = "extract" => E[k - 1].e = "get" /\ E[k - 1].ok
                /\ E[k].e = "write" => E[k - 1].e = "extract" /\ k = Len(E)
                /\ E[k].e = "skip" => E[k - 1].e \in {"get", "extract"} /\ k = Len(E)
           /\ LinkFinished(i) => (HasEvent("write", i) <=> ~HasEvent("skip", i))
  /\ (idx >= 1 /\ LinkFinished(idx) /\ cpc # "Done") =>
       /\ HasEvent("write", idx) <=>
            (article_html # None /\ HasBody(article_html[1]))
       /\ HasEvent("extract", idx) => article_html # None

\* a run that wrote its first link and skipped its second after a successful fetch
C5_Witness ==
  /\ cpc = "Done" /\ Len(links) = 2
  /\ HasEvent("write", 1) /\ HasEvent("extract", 2) /\ HasEvent("skip", 2)

\* the place of the first occurrence of x in s
FirstAt(s, x) == CHOOSE p \in 1..Len(s) : s[p] = x /\ \A q \in 1..(p - 1) : s[q] # x
Range(s) == {s[p] : p \in 1..Len(s)}
LinksExtracted == cpc = "ProcessingLinks" /\ HasEvent("links", 0)
Collected == CollectLinks(listing_html[1], base_url)

\* C6: the links returned hold every collected URL once, in the order of the
\* first occurrences; no collected URL gives the empty sequence.
C6_StableDedup ==
  LinksExtracted =>
    /\ Range(links) = Range(Collected)
    /\ \A p, q \in 1..Len(links) : p < q =>
         /\ links[p] # links[q]
         /\ FirstAt(Collected, links[p]) < FirstAt(Collected, links[q])
    /\ Collected = <<>> => links = <<>>

\* the collected URLs u, v, u give u, v
C6_Witness ==
  /\ LinksExtracted
  /\ Len(Collected) = 3 /\ Collected[1] = Collected[3] /\ Collected[1] # Collected[2]
  /\ links = <<Collected[1], Collected[2]>>

Resolved == [p \in 1..Len(AllAnchors(listing_html[1])) |->
               urljoin(base_url, AllAnchors(listing_html[1])[p])]
SameOrigin(u, v) == Origin(u) = Origin(v)
HasMark(u) == \E p \in 1..Len(u) : u[p] \in NonArticleMarks
Ordinary(u) == \A p \in 1..Len(u) : Lower(u[p]) \notin NonArticleMarks

\* C7: when the primary rule yields a link, only the first anchors of the
\* matching headings contribute; when it yields none, every link returned is
\* the resolved URL of an anchor, same-origin with base_url and free of .pdf,
\* .jpg, .png, "#" and ?replytocom; and three same-origin anchors, one of them
\* to a .pdf, give the two others.
C7_FallbackRule ==
  LinksExtracted =>
    LET primary == PrimaryLinks(listing_html[1], base_url)
    IN  /\ primary # <<>> => Range(links) = Range(primary)
        /\ primary = <<>> =>
             /\ \A p \in 1..Len(links) :
                  /\ links[p] \in Range(Resolved)
                  /\ SameOrigin(links[p], base_url)
                  /\ ~HasMark(links[p])
             /\ ( /\ Len(Resolved) = 3
                  /\ \A p \in 1..3 : SameOrigin(Resolved[p], base_url)
                  /\ Resolved[1] # Resolved[3]
                  /\ Ordinary(Resolved[1]) /\ Ordinary(Resolved[3])
                  /\ \E p \in 1..Len(Resolved[2]) : Resolved[2][p] = ".pdf" )
                => links = <<Resolved[1], Resolved[3]>>

ContentExtracted == cpc \in {"Skipped", "Writing"} /\ HasEvent("extract", 0)
Blocks == Candidates(article_html[1])
NoContainerText == ContainerText(article_html[1], 1) = EmptyText
Longest == {p \in 1..Len(Blocks) : \A q \in 1..Len(Blocks) : Blocks[q][1] <= Blocks[p][1]}
Accepted(t) == IF t.n > MIN_FALLBACK_TEXT THEN t ELSE EmptyText

\* C9 as stated: with no accepted container text, the body is the text of the
\* longest block if it is longer than MIN_FALLBACK_TEXT, and of several longest
\* blocks the first in document order is taken.
C9_FirstLongest ==
  (ContentExtracted /\ NoContainerText) =>
    IF Blocks = <<>> THEN content = EmptyText
    ELSE content = Accepted(Blocks[CHOOSE p \in Longest : \A q \in Longest : p <= q][2])

\* C9 as amended: of several longest blocks the one whose text is greatest in
\* string order is taken, wherever it stands in the document.
C9_GreatestLongest ==
  (ContentExtracted /\ NoContainerText) =>
    IF Blocks = <<>> THEN content = EmptyText
    ELSE \E p \in Longest :
           /\ \A q \in Longest : Ord(Blocks[q][2].c) <= Ord(Blocks[p][2].c)
           /\ content = Accepted(Blocks[p][2])

\* two longest blocks of 101 characters: the second, greater in string order, is taken
C9_Witness ==
  /\ ContentExtracted /\ NoContainerText
  /\ Len(Blocks) = 2
  /\ Blocks[1][2] = Run(101, "a") /\ Blocks[2][2] = Run(101, "b")
  /\ content = Run(101, "b")

NameOf(sb, k) ==
  IF k = 0 THEN sb \o <<".txt">> ELSE sb \o <<"_">> \o Decimal(k) \o <<".txt">>
SameBase == \A k \in 1..Len(saved) : saved[k].base = saved[1].base
FreshDir == \A k \in 0..MaxCalls : NameOf(saved[1].base, k) \notin dir0

\* C2: after N calls, one at a time, whose sanitized base names are the same,
\* in a directory that held none of the names, the k-th call wrote base.txt
\* (k = 1) or base_(k-1).txt, no call opened a path that existed, and the
\* directory holds these N files more.
C2_SuffixSequence ==
  (serial /\ saved # <<>> /\ SameBase /\ FreshDir) =>
    /\ \A k \in 1..Len(saved) :
         /\ saved[k].path = NameOf(saved[1].base, k - 1)
         /\ ~saved[k].existed
    /\ dir = dir0 \cup {NameOf(saved[1].base, k - 1) : k \in 1..Len(saved)}
    /\ Cardinality(dir \ dir0) = Len(saved)

\* three calls for the base a_T: a_T.txt, a_T_1.txt, a_T_2.txt
C2_Witness ==
  /\ serial /\ Len(saved) = 3 /\ SameBase /\ FreshDir
  /\ saved[3].path = <<"a", "_", "T", "_", "2", ".txt">>
  /\ \A w \in Writers : writers[w].pc = "idle"

\* C10: when each caller runs its existence checks and its write with no other
\* caller in between, no call opens a path that exists and every call adds a
\* file; without that, two callers can both find one path free and one file
\* replaces the other.
C10_SerializedUnique ==
  serial =>
    /\ \A k \in 1..Len(saved) : ~saved[k].existed
    /\ \A j, k \in 1..Len(saved) : j # k => saved[j].path # saved[k].path
    /\ Cardinality(dir \ dir0) = Len(saved)

\* two unserialized callers wrote the same path: two artifacts, one file
C10_Witness ==
  /\ ~serial /\ Len(saved) = 2
  /\ saved[1].path = saved[2].path /\ ~saved[1].existed /\ saved[2].existed
  /\ Cardinality(dir \ dir0) = 1

SchemaKeys == {"company_name", "funding_amount", "funding_type", "article_date",
               "company_since", "article_url", "filename"}
WordsOf(text) == {text[p] : p \in 1..Len(text)}
TypeNames == {TitleCase(FundingTypes[k]) : k \in 1..Len(FundingTypes)}

\* C8: every record of the dataset has exactly the seven schema keys; its
\* filename is a text file of the directory; every other value is the sentinel
\* or a string of words of that file (a funding type: one of the type names).
C8_SchemaComplete ==
  \A k \in 1..Len(data) :
    /\ DOMAIN data[k] = SchemaKeys
    /\ data[k]["filename"] \in DOMAIN source_dir
    /\ IsTxt(data[k]["filename"])
    /\ \A key \in SchemaKeys \ {"filename"} :
         \/ data[k][key] = UNDEFINED
         \/ data[k][key] \in TypeNames
         \/ \A p \in 1..Len(data[k][key]) :
              data[k][key][p] \in WordsOf(source_dir[data[k]["filename"]])
    /\ \A j \in 1..Len(data) : DOMAIN data[j] = DOMAIN data[k]

\* a dataset of two records: one with every rule matched but the date, one with
\* every value the sentinel
C8_Witness ==
  /\ todo = {} /\ Len(data) = 2
  /\ \E k \in 1..2 :
       /\ data[k]["company_name"] = <<"Acme", "Corp">>
       /\ data[k]["funding_amount"] = <<"$5", "million">>
       /\ data[k]["funding_type"] = <<"Series", "A">>
       /\ data[k]["company_since"] = <<"2019">>
       /\ data[k]["article_url"] = <<"https://x.test/a">>
       /\ data[k]["article_date"] = UNDEFINED
  /\ \E k \in 1..2 : \A key \in SchemaKeys \ {"filename"} : data[k][key] = UNDEFINED

====
